---- MODULE Spec2Model ----
(***************************************************************************)
(* rebirth-http: the interceptor chain of RebirthHttpProvider, the         *)
(* HttpInterceptor adapter RebirthHttpInterceptors and the request         *)
(* assembly done by the verb decorators (methodBuilder).                   *)
(*                                                                         *)
(* Strings are sequences of one-character strings, so that the regular     *)
(* expressions and String.replace of the source are computed character by  *)
(* character.  A value that may be undefined is a sequence of length 0     *)
(* (undefined) or 1 (the value).                                           *)
(***************************************************************************)
EXTENDS Integers, Sequences, FiniteSets, TLC

\* ---------------------------------------------------------------- bounds
MaxInterceptors == 3
MaxEvents == 2
MaxBindings == 2

\* ------------------------------------------------------- string helpers
Nothing == <<>>
Just(x) == <<x>>
\* a || b, for a an object or undefined
OrElse(m, d) == IF m = Nothing THEN d ELSE m[1]

StartsWith(s, p) == Len(s) >= Len(p) /\ SubSeq(s, 1, Len(p)) = p

\* /^https?:/.test(url)
IsAbsoluteUrl(url) ==
    \/ StartsWith(url, <<"h", "t", "t", "p", ":">>)
    \/ StartsWith(url, <<"h", "t", "t", "p", "s", ":">>)

\* s.replace(/\/$/, "")
StripTrailingSlash(s) ==
    IF Len(s) > 0 /\ s[Len(s)] = "/" THEN SubSeq(s, 1, Len(s) - 1) ELSE s

\* s.replace(/^\//, "")
StripLeadingSlash(s) ==
    IF Len(s) > 0 /\ s[1] = "/" THEN SubSeq(s, 2, Len(s)) ELSE s

\* excludes.some(t => t.test(url)); a pattern is an anchored literal /^p/
ExcludesSome(excludes, url) ==
    \E k \in 1..Len(excludes) : StartsWith(url, excludes[k])

\* ----------------------------------------------------------- HttpHeaders
\* An HttpHeaders value is an ordered map: a sequence of [name, values].
HasHeader(h, name) == \E k \in 1..Len(h) : h[k].name = name
HeaderValues(h, name) ==
    IF HasHeader(h, name)
    THEN h[CHOOSE k \in 1..Len(h) : h[k].name = name].values
    ELSE <<>>

\* HttpHeaders.append(name, value): a new HttpHeaders with one more value
HttpHeadersAppend(h, name, value) ==
    IF HasHeader(h, name)
    THEN [k \in 1..Len(h) |->
            IF h[k].name = name
            THEN [name |-> name, values |-> Append(h[k].values, value)]
            ELSE h[k]]
    ELSE Append(h, [name |-> name, values |-> <<value>>])

\* HttpHeaders.set(name, value): a new HttpHeaders where value replaces
\* whatever name had
\* (variant: set that appends like append)
HttpHeadersSetMutant(h, name, value) ==
    IF HasHeader(h, name)
    THEN [k \in 1..Len(h) |->
            IF h[k].name = name
            THEN [name |-> name, values |-> Append(h[k].values, value)]
            ELSE h[k]]
    ELSE Append(h, [name |-> name, values |-> <<value>>])
HttpHeadersSet(h, name, value) ==
    IF HasHeader(h, name)
    THEN [k \in 1..Len(h) |->
            IF h[k].name = name
            THEN [name |-> name, values |-> <<value>>]
            ELSE h[k]]
    ELSE Append(h, [name |-> name, values |-> <<value>>])

\* request.clone({ setHeaders: map }): Object.keys(map).reduce(set)
RECURSIVE SetHeaders(_, _)
SetHeaders(h, map) ==
    IF map = <<>> THEN h
    ELSE SetHeaders(HttpHeadersSet(h, map[1].name, map[1].value), Tail(map))


\* ------------------------------------------------------------- the state
VARIABLES
    interceptors,   \* RebirthHttpProvider.interceptors
    closureHost,    \* the `host` variable captured by each baseUrl interceptor
    event,          \* the global `event` (window.event) of the page
    last,           \* the most recent handleRequest / handleResponse call
    sent,           \* the request intercept() handed to next.handle
    stream,         \* the events of that request: produced, handled, delivered
    target,         \* the parameter metadata paramBuilder put on the class
    descriptor,     \* the method descriptor the decorators work on
    klass,          \* getBaseUrl() / getDefaultHeaders() of the client class
    thrown,         \* the Error a decorator factory threw, if any
    dispatched      \* the arguments of the last this.http.request(...)

providerVars == <<interceptors, closureHost, event, last, sent, stream>>
builderVars == <<target, descriptor, klass, thrown, dispatched>>
vars == <<interceptors, closureHost, event, last, sent, stream,
          target, descriptor, klass, thrown, dispatched>>

\* -------------------------------------------------- interceptor functions
\* A function of an interceptor: kind "none" is an absent property.
NoFn == [kind |-> "none", f |-> "none", host |-> <<>>, excludes |-> <<>>, map |-> <<>>]
UserFn(f) == [kind |-> "user", f |-> f, host |-> <<>>, excludes |-> <<>>, map |-> <<>>]
Wrapped(kind, f) == [kind |-> kind, f |-> f, host |-> <<>>, excludes |-> <<>>, map |-> <<>>]

\* !!item.request, !!item.response
HasFn(fn) == fn.kind # "none"

\* The functions callers register.  "appendA"/"appendB" return a changed
\* copy, "nothing" returns undefined.
UserRequestFn(f, request) ==
    CASE f = "appendA" -> Just([request EXCEPT !.url = Append(@, "a")])
      [] f = "appendB" -> Just([request EXCEPT !.url = Append(@, "b")])
      [] OTHER -> Nothing

UserResponseFn(f, response) ==
    CASE f = "appendA" -> Just([response EXCEPT !.body = Append(@, "a")])
      [] f = "appendB" -> Just([response EXCEPT !.body = Append(@, "b")])
      [] OTHER -> Nothing

\* the request function registered by baseUrl(host, excludes); host is the
\* captured variable, which the function assigns
\* (variant: the url keeps its leading slash)
BaseUrlRequestMutant(excludes, host, request) ==
    IF IsAbsoluteUrl(request.url) \/ ExcludesSome(excludes, request.url)
    THEN [ret |-> Just(request), host |-> host]
    ELSE LET h == StripTrailingSlash(host)
             url == request.url
         IN  [ret |-> Just([request EXCEPT !.url = h \o <<"/">> \o url]),
              host |-> h]
BaseUrlRequest(excludes, host, request) ==
    IF IsAbsoluteUrl(request.url)
    THEN [ret |-> Just(request), host |-> host]
    ELSE IF ExcludesSome(excludes, request.url)
    THEN [ret |-> Just(request), host |-> host]
    ELSE LET h == StripTrailingSlash(host)
             url == StripLeadingSlash(request.url)
         IN  [ret |-> Just([request EXCEPT !.url = h \o <<"/">> \o url]),
              host |-> h]

\* the request function registered by headers(map)
HeadersRequest(map, request) ==
    Just([request EXCEPT !.headers = SetHeaders(@, map)])

\* item.request(req): the returned value and the captured host afterwards
ApplyRequestFn(fn, host, request) ==
    CASE fn.kind = "user" ->
            [ret |-> UserRequestFn(fn.f, request), host |-> host]
      [] fn.kind = "requestInterceptor" ->
            [ret |-> Just(OrElse(UserRequestFn(fn.f, request), request)),
             host |-> host]
      [] fn.kind = "baseUrl" -> BaseUrlRequest(fn.excludes, host, request)
      [] fn.kind = "headers" ->
            [ret |-> HeadersRequest(fn.map, request), host |-> host]

\* event instanceof HttpResponse && !event.ok, on a value that may be
\* undefined
IsFailedResponse(ev) ==
    ev # Nothing /\ ev[1].kind = "Response" /\ ~ev[1].ok

\* item.response(httpEvent, request): the returned value, and whether the
\* registered function was called.  The error interceptor tests the global
\* `event`, not its parameter.
ApplyResponseFn(fn, globalEvent, response) ==
    CASE fn.kind = "user" ->
            [ret |-> UserResponseFn(fn.f, response), called |-> TRUE]
      [] fn.kind = "responseInterceptor" ->
            [ret |-> Just(OrElse(UserResponseFn(fn.f, response), response)),
             called |-> TRUE]
      [] fn.kind = "responseErrorInterceptor" ->
            IF IsFailedResponse(globalEvent)
            THEN [ret |-> Just(OrElse(UserResponseFn(fn.f, response), response)),
                  called |-> TRUE]
            ELSE [ret |-> Nothing, called |-> FALSE]

\* ------------------------------------------------- RebirthHttpProvider
Reverse(s) == [k \in 1..Len(s) |-> s[Len(s) + 1 - k]]
Indices(list) == [i \in 1..Len(list) |-> i]

\* .filter(item => !!item.request), as positions in the list
RequestItems(list) ==
    SelectSeq(Indices(list), LAMBDA i : HasFn(list[i].request))
\* .filter(item => !!item.response)
ResponseItems(list) ==
    SelectSeq(Indices(list), LAMBDA i : HasFn(list[i].response))

\* .reduce((req, item) => item.request(req) || req, req); log records every
\* call of an item.request with its argument, its returned value and the
\* value its captured host had before the call
RECURSIVE ReduceRequest(_, _, _, _)
ReduceRequest(list, items, k, st) ==
    IF k > Len(items) THEN st
    ELSE LET i == items[k]
             r == ApplyRequestFn(list[i].request, st.hosts[i], st.out)
         IN  ReduceRequest(list, items, k + 1,
                [out |-> OrElse(r.ret, st.out),
                 hosts |-> [st.hosts EXCEPT ![i] = r.host],
                 log |-> Append(st.log,
                            [idx |-> i, arg |-> st.out, ret |-> r.ret,
                             called |-> TRUE, host |-> st.hosts[i]])])

\* (variant: the request chain taken last registered first)
handleRequestMutant(list, hosts, req) ==
    ReduceRequest(list, Reverse(RequestItems(list)), 1,
                  [out |-> req, hosts |-> hosts, log |-> <<>>])
handleRequest(list, hosts, req) ==
    ReduceRequest(list, RequestItems(list), 1,
                  [out |-> req, hosts |-> hosts, log |-> <<>>])

\* .reduce((httpEvent, item) => item.response(httpEvent, request) || response,
\*         response)
RECURSIVE ReduceResponse(_, _, _, _, _, _)
ReduceResponse(list, items, k, globalEvent, response, st) ==
    IF k > Len(items) THEN st
    ELSE LET i == items[k]
             r == ApplyResponseFn(list[i].response, globalEvent, st.out)
         IN  ReduceResponse(list, items, k + 1, globalEvent, response,
                [out |-> OrElse(r.ret, response),
                 log |-> Append(st.log,
                            [idx |-> i, arg |-> st.out, ret |-> r.ret,
                             called |-> r.called, host |-> <<>>])])

\* (variant: the response chain without .reverse())
handleResponseMutant(list, globalEvent, response) ==
    ReduceResponse(list, ResponseItems(list), 1, globalEvent,
                   response, [out |-> response, log |-> <<>>])
handleResponse(list, globalEvent, response) ==
    ReduceResponse(list, Reverse(ResponseItems(list)), 1, globalEvent,
                   response, [out |-> response, log |-> <<>>])

getInterceptors == interceptors

\* this.interceptors.push(interceptor)
addInterceptor(interceptor) ==
    /\ Len(interceptors) < MaxInterceptors
    /\ interceptors' = Append(interceptors, interceptor)
    /\ closureHost' = Append(closureHost, <<>>)
    /\ UNCHANGED <<event, last, sent, stream>>
    /\ UNCHANGED builderVars

addRequestInterceptor(f) ==
    addInterceptor([request |-> Wrapped("requestInterceptor", f),
                    response |-> NoFn])

addResponseInterceptor(f) ==
    addInterceptor([request |-> NoFn,
                    response |-> Wrapped("responseInterceptor", f)])

addResponseErrorInterceptor(f) ==
    addInterceptor([request |-> NoFn,
                    response |-> Wrapped("responseErrorInterceptor", f)])

baseUrl(host, excludes) ==
    /\ Len(interceptors) < MaxInterceptors
    /\ interceptors' = Append(interceptors,
            [request |-> [kind |-> "baseUrl", f |-> "none", host |-> host,
                          excludes |-> excludes, map |-> <<>>],
             response |-> NoFn])
    /\ closureHost' = Append(closureHost, host)
    /\ UNCHANGED <<event, last, sent, stream>>
    /\ UNCHANGED builderVars

headers(map) ==
    addInterceptor([request |-> [kind |-> "headers", f |-> "none",
                                 host |-> <<>>, excludes |-> <<>>, map |-> map],
                    response |-> NoFn])

\* a call of provider.handleRequest(req)
HandleRequest(req) ==
    LET r == handleRequest(interceptors, closureHost, req)
    IN  /\ last' = [op |-> "handleRequest", n |-> Len(interceptors),
                    arg |-> Just(req), out |-> Just(r.out), log |-> r.log]
        /\ closureHost' = r.hosts
        /\ UNCHANGED <<interceptors, event, sent, stream>>
        /\ UNCHANGED builderVars

\* a call of provider.handleResponse(response)
\* (variant: .reverse() on this.interceptors itself)
HandleResponseMutant(response) ==
    LET r == handleResponse(interceptors, event, response)
    IN  /\ last' = [op |-> "handleResponse", n |-> Len(interceptors),
                    arg |-> Just(response), out |-> Just(r.out), log |-> r.log]
        /\ interceptors' = Reverse(interceptors)
        /\ UNCHANGED <<closureHost, event, sent, stream>>
        /\ UNCHANGED builderVars
HandleResponse(response) ==
    LET r == handleResponse(interceptors, event, response)
    IN  /\ last' = [op |-> "handleResponse", n |-> Len(interceptors),
                    arg |-> Just(response), out |-> Just(r.out), log |-> r.log]
        /\ UNCHANGED <<interceptors, closureHost, event, sent, stream>>
        /\ UNCHANGED builderVars

\* the page dispatches or finishes dispatching a DOM event: window.event
DomEvent ==
    /\ event' = IF event = Nothing THEN Just([kind |-> "DomEvent"]) ELSE Nothing
    /\ UNCHANGED <<interceptors, closureHost, last, sent, stream>>
    /\ UNCHANGED builderVars

\* ---------------------------------------------- RebirthHttpInterceptors
\* Observable.do(next): next runs for its effect, the source value goes on
Do(value, nextResult) == value

\* intercept(req, next): next.handle(this.rebirthHttpProvider.handleRequest(req))
intercept(req) ==
    LET r == handleRequest(interceptors, closureHost, req)
    IN  /\ sent' = Just([req |-> req, n |-> Len(interceptors),
                         hosts |-> closureHost, handed |-> r.out])
        /\ stream' = <<>>
        /\ closureHost' = r.hosts
        /\ UNCHANGED <<interceptors, event, last>>
        /\ UNCHANGED builderVars

\* the transport emits an event on the observable intercept returned
TransportEmits(response) ==
    /\ sent # Nothing
    /\ Len(stream) < MaxEvents
    /\ LET r == handleResponse(interceptors, event, response)
       IN  stream' = Append(stream,
                [produced |-> response, handled |-> r.out,
                 delivered |-> Do(response, r.out)])
    /\ UNCHANGED <<interceptors, closureHost, event, last, sent>>
    /\ UNCHANGED builderVars

\* ------------------------------------------------------ JavaScript values
\* A call argument: t is its type; n the number, the boolean (0/1) or the
\* epoch milliseconds of a Date; s the characters of a string; items the
\* elements of an array; kv the own keys and values of a plain object.
Value(t, n, s, items, kv) == [t |-> t, n |-> n, s |-> s, items |-> items, kv |-> kv]
Undefined == Value("undefined", 0, <<>>, <<>>, <<>>)
Null == Value("null", 0, <<>>, <<>>, <<>>)
Str(s) == Value("string", 0, s, <<>>, <<>>)
Num(n) == Value("number", n, <<>>, <<>>, <<>>)
Bool(b) == Value("boolean", IF b THEN 1 ELSE 0, <<>>, <<>>, <<>>)
DateOf(ms) == Value("date", ms, <<>>, <<>>, <<>>)
Arr(items) == Value("array", 0, <<>>, items, <<>>)
Obj(kv) == Value("object", 0, <<>>, <<>>, kv)

isObject(value) == value.t \in {"object", "array", "date"}
\* (variant: null counted as undefined)
isUndefinedMutant(value) == value.t \in {"undefined", "null"}
isUndefined(value) == value.t = "undefined"
isEmpty(value) == value.t = "undefined" \/ value.t = "null"

\* args[i], for the 0-based index i
Arg(args, i) == IF i + 1 <= Len(args) THEN args[i + 1] ELSE Undefined

Digits == <<"0", "1", "2", "3", "4", "5", "6", "7", "8", "9">>
RECURSIVE NumToString(_)
NumToString(n) ==
    IF n < 10 THEN <<Digits[n + 1]>>
    ELSE NumToString(n \div 10) \o <<Digits[(n % 10) + 1]>>

RECURSIVE Join(_, _)
Join(items, sep) ==
    IF items = <<>> THEN <<>>
    ELSE IF Len(items) = 1 THEN items[1]
    ELSE items[1] \o sep \o Join(Tail(items), sep)

\* String(value) / value.toString().  A Date's string form is locale text
\* and is not modelled: no argument that reaches here is a Date.
toString(value) ==
    CASE value.t = "string" -> value.s
      [] value.t = "number" -> NumToString(value.n)
      [] value.t = "boolean" ->
            IF value.n = 1 THEN <<"t", "r", "u", "e">>
            ELSE <<"f", "a", "l", "s", "e">>
      [] value.t = "undefined" -> <<"u", "n", "d", "e", "f", "i", "n", "e", "d">>
      [] value.t = "null" -> <<"n", "u", "l", "l">>
      [] value.t = "array" -> Join(value.items, <<",">>)
      [] value.t = "object" ->
            <<"[", "o", "b", "j", "e", "c", "t", " ", "O", "b", "j", "e", "c", "t", "]">>

\* encodeURIComponent, on the alphabet of the model: letters, digits and
\* the reserved characters listed here
EncodeChar(c) ==
    CASE c = "/" -> <<"%", "2", "F">>
      [] c = ":" -> <<"%", "3", "A">>
      [] c = " " -> <<"%", "2", "0">>
      [] c = "$" -> <<"%", "2", "4">>
      [] c = "[" -> <<"%", "5", "B">>
      [] c = "]" -> <<"%", "5", "D">>
      [] c = "," -> <<"%", "2", "C">>
      [] OTHER -> <<c>>
RECURSIVE EncodeString(_)
EncodeString(s) ==
    IF s = <<>> THEN <<>> ELSE EncodeChar(s[1]) \o EncodeString(Tail(s))
encodeURIComponent(value) == EncodeString(toString(value))

\* s.indexOf(p) + 1, 0 when p does not occur
IndexOf(s, p) ==
    LET hits == {i \in 1..(Len(s) - Len(p) + 1) : SubSeq(s, i, i + Len(p) - 1) = p}
    IN  IF hits = {} THEN 0 ELSE CHOOSE i \in hits : \A j \in hits : i <= j

\* s.replace(p, r) for a string p: the first occurrence only (r holds no $)
StringReplace(s, p, r) ==
    LET i == IndexOf(s, p)
    IN  IF i = 0 THEN s
        ELSE SubSeq(s, 1, i - 1) \o r \o SubSeq(s, i + Len(p), Len(s))

\* ------------------------------------------------------------ HttpParams
\* An HttpParams value is an ordered map: a sequence of [key, value].
HasParam(ps, key) == \E k \in 1..Len(ps) : ps[k].key = key
ParamValue(ps, key) == ps[CHOOSE k \in 1..Len(ps) : ps[k].key = key].value

\* HttpParams.set(key, value): a new HttpParams, the receiver is unchanged
HttpParamsSet(ps, key, value) ==
    IF HasParam(ps, key)
    THEN [k \in 1..Len(ps) |->
            IF ps[k].key = key THEN [key |-> key, value |-> value] ELSE ps[k]]
    ELSE Append(ps, [key |-> key, value |-> value])

\* -------------------------------------------------------- the decorators
\* paramBuilder(paramName, optional)(key)(target, propertyKey, parameterIndex);
\* an omitted key is the empty sequence, which !key treats like ""
\* (variant: no check of the key)
paramBuilderMutant(paramName, optional, key, parameterIndex) ==
    /\ ~descriptor.built
    /\ Len(target[paramName]) < MaxBindings
    /\ target' = [target EXCEPT ![paramName] =
            Append(@, [key |-> key, parameterIndex |-> parameterIndex])]
    /\ UNCHANGED <<thrown, descriptor, klass, dispatched>>
    /\ UNCHANGED providerVars
paramBuilder(paramName, optional, key, parameterIndex) ==
    /\ ~descriptor.built
    /\ IF ~optional /\ key = <<>>
       THEN /\ thrown' = <<paramName, "Key is required!">>
            /\ UNCHANGED target
       ELSE /\ Len(target[paramName]) < MaxBindings
            /\ target' = [target EXCEPT ![paramName] =
                    Append(@, [key |-> key, parameterIndex |-> parameterIndex])]
            /\ UNCHANGED thrown
    /\ UNCHANGED <<descriptor, klass, dispatched>>
    /\ UNCHANGED providerVars

Path(key, parameterIndex) == paramBuilder("Path", FALSE, key, parameterIndex)
Query(key, parameterIndex) == paramBuilder("Query", TRUE, key, parameterIndex)
Body(parameterIndex) ==
    paramBuilder("Body", FALSE, <<"B", "o", "d", "y">>, parameterIndex)
Header(key, parameterIndex) == paramBuilder("Header", FALSE, key, parameterIndex)

\* The class and method decorators run when the class is defined, before
\* any call of the generated method.
\* @Headers(headersDef): descriptor.headers = headersDef
Headers(headersDef) ==
    /\ dispatched = Nothing
    /\ descriptor' = [descriptor EXCEPT !.headers = headersDef]
    /\ UNCHANGED <<target, klass, thrown, dispatched>>
    /\ UNCHANGED providerVars

\* @BaseUrl(url): getBaseUrl returns url
BaseUrl(url) ==
    /\ dispatched = Nothing
    /\ klass' = [klass EXCEPT !.baseUrl = url]
    /\ UNCHANGED <<target, descriptor, thrown, dispatched>>
    /\ UNCHANGED providerVars

\* @DefaultHeaders(headers): getDefaultHeaders returns headers
DefaultHeaders(headersDef) ==
    /\ dispatched = Nothing
    /\ klass' = [klass EXCEPT !.defaultHeaders = headersDef]
    /\ UNCHANGED <<target, descriptor, thrown, dispatched>>
    /\ UNCHANGED providerVars

\* @GET(url), @POST(url), ...: the parameter metadata present now is what
\* the generated method will use
methodBuilder(method, url) ==
    /\ ~descriptor.built
    /\ descriptor' = [descriptor EXCEPT !.built = TRUE, !.method = method,
                                        !.url = url]
    /\ UNCHANGED <<target, klass, thrown, dispatched>>
    /\ UNCHANGED providerVars

\* ---- the generated method: descriptor.value = function (...args)
\* Body
BuildBody(pBody, args) ==
    IF pBody # <<>> THEN Arg(args, pBody[1].parameterIndex) ELSE Str(<<>>)

\* Path: resUrl = resUrl.replace(`:${key}`, encodeURIComponent(arg)), binding
\* after binding
RECURSIVE BuildPath(_, _, _)
BuildPath(resUrl, pPath, args) ==
    IF pPath = <<>> THEN resUrl
    ELSE BuildPath(StringReplace(resUrl, <<":">> \o pPath[1].key,
                       encodeURIComponent(Arg(args, pPath[1].parameterIndex))),
                   Tail(pPath), args)

\* for (let k in value) result = ps.set(k, value[k]): every pass starts
\* again from ps
RECURSIVE ObjectLoop(_, _, _)
ObjectLoop(ps, kv, result) ==
    IF kv = <<>> THEN result
    ELSE ObjectLoop(ps, Tail(kv), HttpParamsSet(ps, kv[1].key, kv[1].value))

\* the body of the Query reduce callback
QueryStep(ps, p, args) ==
    LET key == p.key
        value == Arg(args, p.parameterIndex)
    IN  IF value.t = "date" THEN HttpParamsSet(ps, key, NumToString(value.n))
        ELSE IF value.t = "array" THEN HttpParamsSet(ps, key, Join(value.items, <<",">>))
        ELSE IF isObject(value) THEN ObjectLoop(ps, value.kv, ps)
        ELSE IF ~isEmpty(value) THEN HttpParamsSet(ps, key, toString(value))
        ELSE HttpParamsSet(ps, key, <<>>)

\* .filter(p => !isUndefined(args[p.parameterIndex]))
QueryFilter(pQuery, args) ==
    SelectSeq(pQuery, LAMBDA p : ~isUndefined(Arg(args, p.parameterIndex)))

RECURSIVE QueryReduce(_, _, _)
QueryReduce(ps, items, args) ==
    IF items = <<>> THEN ps
    ELSE QueryReduce(QueryStep(ps, items[1], args), Tail(items), args)

BuildQuery(pQuery, args) == QueryReduce(<<>>, QueryFilter(pQuery, args), args)

\* new HttpHeaders(obj): one value per key; null gives no headers
RECURSIVE NewHttpHeaders(_)
NewHttpHeaders(obj) ==
    IF obj = <<>> THEN <<>>
    ELSE <<[name |-> obj[1].name, values |-> <<obj[1].value>>]>>
         \o NewHttpHeaders(Tail(obj))

\* for (k in descriptor.headers) headers.append(k, descriptor.headers[k]):
\* append returns the new HttpHeaders, which the statement drops
RECURSIVE AppendMethodHeaders(_, _)
AppendMethodHeaders(hdrs, headersDef) ==
    IF headersDef = <<>> THEN hdrs
    ELSE LET dropped == HttpHeadersAppend(hdrs, headersDef[1].name, headersDef[1].value)
         IN  AppendMethodHeaders(hdrs, Tail(headersDef))

\* for (k in pHeader) headers.append(pHeader[k].key, args[...]): dropped too
RECURSIVE AppendParamHeaders(_, _, _)
AppendParamHeaders(hdrs, pHeader, args) ==
    IF pHeader = <<>> THEN hdrs
    ELSE LET dropped == HttpHeadersAppend(hdrs, pHeader[1].key,
                            Arg(args, pHeader[1].parameterIndex).s)
         IN  AppendParamHeaders(hdrs, Tail(pHeader), args)

BuildHeaders(defaultHeaders, headersDef, pHeader, args) ==
    AppendParamHeaders(
        AppendMethodHeaders(NewHttpHeaders(defaultHeaders), headersDef),
        pHeader, args)

\* `${host}${resUrl.replace(/^\//, "")}`
\* (variant: the base url keeps its trailing slash)
RequestUrlMutant(base, resUrl) ==
    LET host == IF base # <<>> THEN base \o <<"/">> ELSE <<>>
    IN  host \o StripLeadingSlash(resUrl)
RequestUrl(base, resUrl) ==
    LET host == IF base # <<>> THEN StripTrailingSlash(base) \o <<"/">> ELSE <<>>
    IN  host \o StripLeadingSlash(resUrl)

\* a call of the generated method: this.http.request(method, requestUrl, options);
\* resUrl and args are the locals of that call
Call(args) ==
    /\ descriptor.built
    /\ dispatched' = Just(
            [method |-> descriptor.method,
             resUrl |-> BuildPath(descriptor.url, target["Path"], args),
             url |-> RequestUrl(klass.baseUrl,
                                BuildPath(descriptor.url, target["Path"], args)),
             body |-> BuildBody(target["Body"], args),
             headers |-> BuildHeaders(klass.defaultHeaders, descriptor.headers,
                                      target["Header"], args),
             params |-> BuildQuery(target["Query"], args),
             args |-> args])
    /\ UNCHANGED <<target, descriptor, klass, thrown>>
    /\ UNCHANGED providerVars

\* ------------------------------------------------------------ initial state
Init ==
    /\ interceptors = <<>>
    /\ closureHost = <<>>
    /\ event = Nothing
    /\ last = [op |-> "none", n |-> 0, arg |-> Nothing, out |-> Nothing,
               log |-> <<>>]
    /\ sent = Nothing
    /\ stream = <<>>
    /\ target = [Path |-> <<>>, Query |-> <<>>, Body |-> <<>>, Header |-> <<>>]
    /\ descriptor = [built |-> FALSE, method |-> "none", url |-> <<>>,
                     headers |-> <<>>]
    /\ klass = [baseUrl |-> <<>>, defaultHeaders |-> <<>>]
    /\ thrown = <<>>
    /\ dispatched = Nothing

\* --------------------------------------------------------------- inputs
Authorization == <<"A", "u", "t", "h", "o", "r", "i", "z", "a", "t", "i", "o", "n">>
Accept == <<"A", "c", "c", "e", "p", "t">>
HostA == <<"h", "t", "t", "p", ":", "/", "/", "a">>
UrlRelative == <<"/", "u">>
UrlAbsolute == <<"h", "t", "t", "p", "s", ":", "/", "/", "b">>

\* header values
ValX == <<"X">>
ValY == <<"Y">>
ValJ == <<"j">>
ValK == <<"k">>
ValP == <<"P">>
ValQ == <<"Q">>

Request(url, hdrs) == [url |-> url, headers |-> hdrs]
HttpSentEvent == [kind |-> "Sent", ok |-> FALSE, body |-> <<>>]
HttpResponse(ok) == [kind |-> "Response", ok |-> ok, body |-> <<>>]

ChainInterceptors ==
    { [request |-> UserFn("appendA"), response |-> NoFn],
      [request |-> UserFn("nothing"), response |-> UserFn("appendA")],
      [request |-> NoFn, response |-> UserFn("nothing")] }
ChainRequests == { Request(UrlRelative, <<>>), Request(UrlAbsolute, <<>>) }
ChainEvents == { HttpSentEvent, HttpResponse(TRUE), HttpResponse(FALSE) }

ExcludeX == <<"/", "x">>
BaseUrlRequests ==
    { Request(url, <<>>) :
        url \in { UrlRelative, <<"u">>, <<"/", "/", "u">>, UrlAbsolute, ExcludeX } }

HeaderOf(name, values) == [name |-> name, values |-> values]
HeadersRequests ==
    { Request(UrlRelative, hdrs) :
        hdrs \in { <<>>,
                   <<HeaderOf(Authorization, <<ValP>>)>>,
                   <<HeaderOf(Accept, <<ValK>>), HeaderOf(Authorization, <<ValP, ValQ>>)>> } }
Pair(name, value) == [name |-> name, value |-> value]
HeadersMaps ==
    { <<Pair(Authorization, ValX)>>,
      <<Pair(Accept, ValJ), Pair(Authorization, ValY)>> }

\* ------------------------------------------------------- specifications
\* The provider: registrations interleaved with handleRequest/handleResponse
Next ==
    \/ \E i \in ChainInterceptors : addInterceptor(i)
    \/ addRequestInterceptor("appendB")
    \/ addResponseInterceptor("appendB")
    \/ addResponseErrorInterceptor("appendA")
    \/ baseUrl(HostA \o <<"/">>, <<>>)
    \/ headers(<<Pair(Accept, ValJ)>>)
    \/ \E req \in ChainRequests : HandleRequest(req)
    \/ \E response \in ChainEvents : HandleResponse(response)
    \/ DomEvent

Spec == Init /\ [][Next]_vars

\* The HttpInterceptor adapter in front of a transport
NextIntercept ==
    \/ addInterceptor([request |-> UserFn("appendA"), response |-> UserFn("appendB")])
    \/ addResponseInterceptor("appendA")
    \/ addResponseErrorInterceptor("appendB")
    \/ \E req \in ChainRequests : intercept(req)
    \/ \E response \in ChainEvents : TransportEmits(response)
    \/ DomEvent

SpecIntercept == Init /\ [][NextIntercept]_vars

\* baseUrl interceptors over relative, absolute and excluded urls
NextBaseUrl ==
    \/ \E slashes \in {<<>>, <<"/">>, <<"/", "/">>} : baseUrl(HostA \o slashes, <<>>)
    \/ baseUrl(HostA \o <<"/">>, <<ExcludeX>>)
    \/ \E req \in BaseUrlRequests : HandleRequest(req)

SpecBaseUrl == Init /\ [][NextBaseUrl]_vars

\* headers interceptors over requests with and without headers
NextHeaders ==
    \/ \E map \in HeadersMaps : headers(map)
    \/ \E req \in HeadersRequests : HandleRequest(req)

SpecHeaders == Init /\ [][NextHeaders]_vars

\* a method with Header bindings, method headers and class default headers
KeyNames == { <<"i", "d">>, <<"i", "d", "x">> }
ArgIndexes == {0, 1}
HeaderArgs == { <<Str(ValP), Str(ValQ)>>, <<Str(ValQ), Str(ValP)>> }
UrlUsers == <<"/", "u", "s", "e", "r", "s", "/", ":", "i", "d">>

NextMethodHeaders ==
    \/ DefaultHeaders(<<Pair(Accept, ValJ)>>)
    \/ \E def \in HeadersMaps : Headers(def)
    \/ \E key \in {Authorization, Accept}, i \in ArgIndexes : Header(key, i)
    \/ methodBuilder("GET", UrlRelative)
    \/ \E args \in HeaderArgs : Call(args)

SpecMethodHeaders == Init /\ [][NextMethodHeaders]_vars

\* a method with Query bindings
QueryValues ==
    { Undefined, Null, Str(<<>>), Str(<<"v">>), Num(12), Bool(TRUE),
      Obj(<<[key |-> <<"a">>, value |-> <<"1">>], [key |-> <<"b">>, value |-> <<"2">>]>>),
      Obj(<<>>),
      Arr(<<ValP, ValQ>>),
      DateOf(86400000) }
QueryArgs == { <<>> } \cup { <<v>> : v \in QueryValues }
                     \cup { <<v, w>> : v \in QueryValues, w \in QueryValues }

NextQuery ==
    \/ \E key \in {<<"q">>, <<"r">>, <<>>}, i \in ArgIndexes : Query(key, i)
    \/ methodBuilder("GET", UrlRelative)
    \/ \E args \in QueryArgs : Call(args)

SpecQuery == Init /\ [][NextQuery]_vars

\* a method with Path bindings
PathValues == { Num(42), Num(7), Str(<<"a", "/", "b">>) }
PathArgs == { <<v>> : v \in PathValues }
                \cup { <<v, w>> : v \in PathValues, w \in PathValues }
PathTemplates ==
    { UrlUsers,
      <<"/", ":", "i", "d", "x", "/", ":", "i", "d">>,
      <<"/", ":", "i", "d", "/", ":", "n">> }

NextPath ==
    \/ \E key \in KeyNames, i \in ArgIndexes : Path(key, i)
    \/ \E url \in PathTemplates : methodBuilder("GET", url)
    \/ \E args \in PathArgs : Call(args)

SpecPath == Init /\ [][NextPath]_vars

\* a method under a class base url, with a Path and a Query binding
HostX == <<"h", "t", "t", "p", ":", "/", "/", "x">>
KeyId == <<"i", "d">>
KeyVerbose == <<"v", "e", "r", "b", "o", "s", "e">>
ItemsTemplate == <<"i", "t", "e", "m", "s", "/", ":", "i", "d">>
UrlArgs == { <<Num(7), Bool(TRUE)>>, <<Str(<<"a", "/", "b">>), Bool(FALSE)>>, <<Num(42)>> }

NextUrl ==
    \/ \E slashes \in {<<>>, <<"/">>, <<"/", "/">>} : BaseUrl(HostX \o slashes)
    \/ \E i \in ArgIndexes : Path(KeyId, i)
    \/ \E i \in ArgIndexes : Query(KeyVerbose, i)
    \/ \E slashes \in {<<>>, <<"/">>, <<"/", "/">>} :
            methodBuilder("GET", slashes \o ItemsTemplate)
    \/ \E args \in UrlArgs : Call(args)

SpecUrl == Init /\ [][NextUrl]_vars

\* the parameter decorators, with and without a key
NextDeclare ==
    \/ \E key \in {KeyId, <<>>} : Path(key, 0)
    \/ \E key \in {Authorization, <<>>} : Header(key, 1)
    \/ \E key \in {KeyVerbose, <<>>}, i \in ArgIndexes : Query(key, i)
    \/ Body(1)
    \/ methodBuilder("POST", <<"/">> \o ItemsTemplate)
    \/ \E args \in HeaderArgs : Call(args)

SpecDeclare == Init /\ [][NextDeclare]_vars

\* ---------------------------------------------------------------- claims
\* C1: handleRequest calls the request function of every interceptor that
\* has one, in registration order, each with the previous one's output (or
\* the unchanged accumulator when the previous one returned nothing), calls
\* nothing else, and returns the final accumulator.
C1_RequestChainInOrder ==
    last.op = "handleRequest" =>
        LET list == SubSeq(interceptors, 1, last.n)
            log == last.log
            req == last.arg[1]
            Acc(k) == IF k = 0 THEN req ELSE OrElse(log[k].ret, log[k].arg)
        IN  /\ \A k \in 1..Len(log) : HasFn(list[log[k].idx].request)
            /\ \A i \in 1..Len(list) :
                    HasFn(list[i].request) => \E k \in 1..Len(log) : log[k].idx = i
            /\ \A k \in 1..(Len(log) - 1) : log[k].idx < log[k + 1].idx
            /\ \A k \in 1..Len(log) : log[k].arg = Acc(k - 1)
            /\ last.out[1] = Acc(Len(log))

\* a chain of three where one interceptor has no request function, one
\* returned nothing before another ran, and the request came out changed
C1_Witness ==
    /\ last.op = "handleRequest"
    /\ last.n = MaxInterceptors
    /\ Len(last.log) = 2
    /\ last.log[1].ret = Nothing
    /\ last.log[2].ret # Nothing
    /\ last.out # last.arg

\* C2: handleResponse calls the response function of every interceptor
\* that has one, last registered first, each with the running accumulator;
\* when one returns nothing the accumulator becomes the response that was
\* passed to handleResponse.
C2_ResponseChainReversed ==
    last.op = "handleResponse" =>
        LET list == SubSeq(interceptors, 1, last.n)
            log == last.log
            e == last.arg[1]
            Acc(k) == IF k = 0 THEN e ELSE OrElse(log[k].ret, e)
        IN  /\ \A k \in 1..Len(log) : HasFn(list[log[k].idx].response)
            /\ \A i \in 1..Len(list) :
                    HasFn(list[i].response) => \E k \in 1..Len(log) : log[k].idx = i
            /\ \A k \in 1..(Len(log) - 1) : log[k].idx > log[k + 1].idx
            /\ \A k \in 1..Len(log) : log[k].arg = Acc(k - 1)
            /\ last.out[1] = Acc(Len(log))

\* a response function returned nothing while the accumulator had already
\* been changed, and another one ran after it
C2_Witness ==
    /\ last.op = "handleResponse"
    /\ \E k \in 1..(Len(last.log) - 1) :
            /\ last.log[k].ret = Nothing
            /\ last.log[k].arg # last.arg[1]
            /\ last.log[k + 1].arg = last.arg[1]

\* C3: the transport gets handleRequest(req), and the caller gets, for
\* every event of the transport, handleResponse of that event.
C3_CallerGetsHandledResponse ==
    /\ sent # Nothing =>
            sent[1].handed = handleRequest(SubSeq(interceptors, 1, sent[1].n),
                                           sent[1].hosts, sent[1].req).out
    /\ \A k \in 1..Len(stream) : stream[k].delivered = stream[k].handled

\* C4: an error interceptor calls its function exactly on failed responses
\* and, for any other response, handleResponse returns what it would
\* return without the error interceptors.
C4_ErrorInterceptorOnlyOnErrors ==
    last.op = "handleResponse" =>
        LET list == SubSeq(interceptors, 1, last.n)
            log == last.log
            e == last.arg[1]
            without == SelectSeq(list,
                LAMBDA it : it.response.kind # "responseErrorInterceptor")
        IN  /\ \A k \in 1..Len(log) :
                    list[log[k].idx].response.kind = "responseErrorInterceptor"
                    => (log[k].called <=> IsFailedResponse(Just(log[k].arg)))
            /\ ~IsFailedResponse(Just(e))
                    => last.out[1] = handleResponse(without, Nothing, e).out

\* helpers of the statements about slashes
EndsWithSlash(s) == Len(s) > 0 /\ s[Len(s)] = "/"
BeginsWithSlash(s) == Len(s) > 0 /\ s[1] = "/"
DropLast(s) == SubSeq(s, 1, Len(s) - 1)
DropFirst(s) == SubSeq(s, 2, Len(s))
RECURSIVE NoTrailingSlashes(_)
NoTrailingSlashes(s) == IF EndsWithSlash(s) THEN NoTrailingSlashes(DropLast(s)) ELSE s
RECURSIVE NoLeadingSlashes(_)
NoLeadingSlashes(s) == IF BeginsWithSlash(s) THEN NoLeadingSlashes(DropFirst(s)) ELSE s
TestsAbsolute(url) ==
    \/ (Len(url) >= 5 /\ SubSeq(url, 1, 5) = <<"h", "t", "t", "p", ":">>)
    \/ (Len(url) >= 6 /\ SubSeq(url, 1, 6) = <<"h", "t", "t", "p", "s", ":">>)
TestsExcluded(excludes, url) ==
    \E k \in 1..Len(excludes) :
        Len(url) >= Len(excludes[k]) /\ SubSeq(url, 1, Len(excludes[k])) = excludes[k]

\* the logged calls of the handleRequest in `last` that went to an
\* interceptor of the given kind
CallsOf(kind) ==
    IF last.op # "handleRequest" THEN {}
    ELSE {k \in 1..Len(last.log) : interceptors[last.log[k].idx].request.kind = kind}

\* C5 as stated: a baseUrl interceptor returns an absolute or excluded
\* request unchanged and rewrites every other url to host + "/" + path with
\* exactly one slash at the join, whatever it processed before.
C5_ExactlyOneSlashAtJoin ==
    \A k \in CallsOf("baseUrl") :
        LET c == last.log[k]
            fn == interceptors[c.idx].request
        IN  IF TestsAbsolute(c.arg.url) \/ TestsExcluded(fn.excludes, c.arg.url)
            THEN c.ret = Just(c.arg)
            ELSE c.ret = Just([c.arg EXCEPT !.url =
                    NoTrailingSlashes(fn.host) \o <<"/">> \o NoLeadingSlashes(c.arg.url)])

\* C5 (amended): a baseUrl interceptor returns an absolute or excluded
\* request unchanged; it rewrites every other url to h + "/" + p, h being
\* its stored host less at most one trailing slash and p the url less at
\* most one leading slash; the stored host is the registered host less the
\* trailing slashes earlier rewrites removed; the join has exactly one
\* slash when the stored host ends in at most one slash and the url begins
\* with at most one.
C5_AtMostOneSlashStripped ==
    \A k \in CallsOf("baseUrl") :
        LET c == last.log[k]
            fn == interceptors[c.idx].request
            h == IF EndsWithSlash(c.host) THEN DropLast(c.host) ELSE c.host
            p == IF BeginsWithSlash(c.arg.url) THEN DropFirst(c.arg.url) ELSE c.arg.url
        IN  /\ \E j \in 0..Len(fn.host) :
                    /\ c.host = SubSeq(fn.host, 1, Len(fn.host) - j)
                    /\ \A m \in (Len(fn.host) - j + 1)..Len(fn.host) : fn.host[m] = "/"
            /\ IF TestsAbsolute(c.arg.url) \/ TestsExcluded(fn.excludes, c.arg.url)
               THEN c.ret = Just(c.arg)
               ELSE /\ c.ret = Just([c.arg EXCEPT !.url = h \o <<"/">> \o p])
                    /\ (~EndsWithSlash(h) /\ ~BeginsWithSlash(p))
                        => c.ret[1].url = NoTrailingSlashes(fn.host) \o <<"/">>
                                            \o NoLeadingSlashes(c.arg.url)

\* host "http://a/" and url "/u" gave "http://a/u"
C5_Witness ==
    \E k \in CallsOf("baseUrl") :
        /\ last.log[k].host = HostA \o <<"/">>
        /\ last.log[k].arg.url = UrlRelative
        /\ last.log[k].ret = Just(Request(HostA \o UrlRelative, <<>>))

\* the values a header name has in a request, none when it is absent
ValuesOf(hdrs, name) ==
    IF \E m \in 1..Len(hdrs) : hdrs[m].name = name
    THEN hdrs[CHOOSE m \in 1..Len(hdrs) : hdrs[m].name = name].values
    ELSE <<>>
NamesOf(hdrs) == {hdrs[m].name : m \in 1..Len(hdrs)}
Elems(seq) == {seq[m] : m \in 1..Len(seq)}

\* C6 as stated: a headers interceptor adds every pair of its map and
\* removes no entry: without an Authorization entry before there is exactly
\* one after, with entries before there is one more after.
C6_HeadersAddedNoneRemoved ==
    \A k \in CallsOf("headers") :
        LET c == last.log[k]
            map == interceptors[c.idx].request.map
            before == c.arg.headers
            after == c.ret[1].headers
        IN  /\ \A m \in 1..Len(map) : map[m].value \in Elems(ValuesOf(after, map[m].name))
            /\ \A name \in NamesOf(before) :
                    Elems(ValuesOf(before, name)) \subseteq Elems(ValuesOf(after, name))
            /\ \A m \in 1..Len(map) :
                    Len(ValuesOf(after, map[m].name))
                        = Len(ValuesOf(before, map[m].name)) + 1

\* C6 (amended): a headers interceptor sets every name of its map to the
\* one configured value, replacing the entries the request had under that
\* name, and leaves the entries under every other name and the url as they
\* were: with or without an Authorization entry before, there is exactly
\* one after, with the configured value.
C6_HeadersSetReplaces ==
    \A k \in CallsOf("headers") :
        LET c == last.log[k]
            map == interceptors[c.idx].request.map
            before == c.arg.headers
            after == c.ret[1].headers
            mapped == {map[m].name : m \in 1..Len(map)}
        IN  /\ \A m \in 1..Len(map) : ValuesOf(after, map[m].name) = <<map[m].value>>
            /\ NamesOf(after) = NamesOf(before) \cup mapped
            /\ \A name \in NamesOf(before) \ mapped :
                    ValuesOf(after, name) = ValuesOf(before, name)
            /\ c.ret[1].url = c.arg.url

\* a request that carried two Authorization values and an Accept value
\* left a headers({Authorization: "X"}) interceptor with the one value "X"
C6_Witness ==
    \E k \in CallsOf("headers") :
        /\ ValuesOf(last.log[k].arg.headers, Authorization) = <<ValP, ValQ>>
        /\ ValuesOf(last.log[k].ret[1].headers, Authorization) = <<ValX>>
        /\ ValuesOf(last.log[k].ret[1].headers, Accept) = <<ValK>>

\* C7: the headers of the dispatched request hold the class default
\* headers, every header of the Headers annotation and, for every
\* Header(key) binding, key with the call argument at its index.
C7_AllHeaderStagesDispatched ==
    dispatched # Nothing =>
        LET d == dispatched[1]
            defaults == klass.defaultHeaders
            fixed == descriptor.headers
            pHeader == target["Header"]
        IN  /\ \A m \in 1..Len(defaults) :
                    defaults[m].value \in Elems(ValuesOf(d.headers, defaults[m].name))
            /\ \A m \in 1..Len(fixed) :
                    fixed[m].value \in Elems(ValuesOf(d.headers, fixed[m].name))
            /\ \A m \in 1..Len(pHeader) :
                    d.args[pHeader[m].parameterIndex + 1].s
                        \in Elems(ValuesOf(d.headers, pHeader[m].key))

\* the keys a Query binding gives under the statement of C8
KeysOfObject(value) == {value.kv[m].key : m \in 1..Len(value.kv)}
ArgOf(d, binding) ==
    IF binding.parameterIndex + 1 <= Len(d.args)
    THEN d.args[binding.parameterIndex + 1] ELSE Undefined
ParamKeys(ps) == {ps[m].key : m \in 1..Len(ps)}
ParamOf(ps, key) == ps[CHOOSE m \in 1..Len(ps) : ps[m].key = key].value

\* C8: a Query binding whose argument is a plain object gives one query
\* parameter per own key of the object; when it is the only binding these
\* are all the parameters, each with the object's value.
C8_ObjectFlattened ==
    dispatched # Nothing =>
        LET d == dispatched[1]
            pQuery == target["Query"]
        IN  \A m \in 1..Len(pQuery) :
                ArgOf(d, pQuery[m]).t = "object" =>
                    /\ KeysOfObject(ArgOf(d, pQuery[m])) \subseteq ParamKeys(d.params)
                    /\ Len(pQuery) = 1 =>
                            /\ ParamKeys(d.params) = KeysOfObject(ArgOf(d, pQuery[m]))
                            /\ \A j \in 1..Len(ArgOf(d, pQuery[m]).kv) :
                                    ParamOf(d.params, ArgOf(d, pQuery[m]).kv[j].key)
                                        = ArgOf(d, pQuery[m]).kv[j].value

\* the keys a binding can put into the query for its argument
Contributes(d, binding, key) ==
    LET value == ArgOf(d, binding)
    IN  IF value.t = "object" THEN key \in KeysOfObject(value)
        ELSE key = binding.key

\* C9 as stated: every query parameter comes from a binding whose argument
\* is neither undefined nor null, and a binding whose argument is "" gives
\* its key, with the empty value when nothing else gives that key.
C9_UndefinedAndNullOmitted ==
    dispatched # Nothing =>
        LET d == dispatched[1]
            pQuery == target["Query"]
        IN  /\ \A key \in ParamKeys(d.params) :
                    \E m \in 1..Len(pQuery) :
                        /\ ArgOf(d, pQuery[m]).t \notin {"undefined", "null"}
                        /\ Contributes(d, pQuery[m], key)
            /\ \A m \in 1..Len(pQuery) :
                    ArgOf(d, pQuery[m]) = Str(<<>>) =>
                        /\ pQuery[m].key \in ParamKeys(d.params)
                        /\ (\A j \in 1..Len(pQuery) :
                                j # m => ~Contributes(d, pQuery[j], pQuery[m].key))
                            => ParamOf(d.params, pQuery[m].key) = <<>>

\* C9 (amended): every query parameter comes from a binding whose argument
\* is not undefined; a binding whose argument is null or "" gives its key,
\* with the empty value when nothing else gives that key.
C9_OnlyUndefinedOmitted ==
    dispatched # Nothing =>
        LET d == dispatched[1]
            pQuery == target["Query"]
        IN  /\ \A key \in ParamKeys(d.params) :
                    \E m \in 1..Len(pQuery) :
                        /\ ArgOf(d, pQuery[m]).t # "undefined"
                        /\ Contributes(d, pQuery[m], key)
            /\ \A m \in 1..Len(pQuery) :
                    ArgOf(d, pQuery[m]) \in {Null, Str(<<>>)} =>
                        /\ pQuery[m].key \in ParamKeys(d.params)
                        /\ (\A j \in 1..Len(pQuery) :
                                j # m => ~Contributes(d, pQuery[j], pQuery[m].key))
                            => ParamOf(d.params, pQuery[m].key) = <<>>

\* a call with an undefined and a null argument: only the key of the null
\* one is in the query, with the empty value
C9_Witness ==
    /\ dispatched # Nothing
    /\ Len(target["Query"]) = 2
    /\ \E m, j \in 1..2 :
            /\ ArgOf(dispatched[1], target["Query"][m]) = Undefined
            /\ ArgOf(dispatched[1], target["Query"][j]) = Null
            /\ target["Query"][m].key # target["Query"][j].key
            /\ dispatched[1].params
                    = <<[key |-> target["Query"][j].key, value |-> <<>>]>>

\* the template with every token :name read as a whole and replaced by the
\* encoded argument of the binding whose key is name, other tokens kept
NameEnd(t, i) ==
    LET stops == {j \in (i + 1)..Len(t) : t[j] \in {"/", ":"}}
    IN  IF stops = {} THEN Len(t)
        ELSE (CHOOSE j \in stops : \A m \in stops : j <= m) - 1
RECURSIVE SubstituteTokens(_, _, _, _)
SubstituteTokens(t, i, pPath, d) ==
    IF i > Len(t) THEN <<>>
    ELSE IF t[i] # ":" THEN <<t[i]>> \o SubstituteTokens(t, i + 1, pPath, d)
    ELSE LET e == NameEnd(t, i)
             name == SubSeq(t, i + 1, e)
             hits == {m \in 1..Len(pPath) : pPath[m].key = name}
         IN  (IF hits = {} THEN SubSeq(t, i, e)
              ELSE EncodeString(toString(ArgOf(d, pPath[CHOOSE m \in hits : TRUE]))))
             \o SubstituteTokens(t, e + 1, pPath, d)
DistinctKeys(pPath) ==
    \A m, j \in 1..Len(pPath) : m # j => pPath[m].key # pPath[j].key

\* C10: with Path bindings of different keys, the url has every token
\* :key replaced by the encoded argument of its binding and every other
\* token kept, and applying the bindings in the opposite order gives the
\* same url.
C10_PathTokensIndependent ==
    (dispatched # Nothing /\ DistinctKeys(target["Path"])) =>
        LET d == dispatched[1]
        IN  /\ d.resUrl = SubstituteTokens(descriptor.url, 1, target["Path"], d)
            /\ d.resUrl = BuildPath(descriptor.url, Reverse(target["Path"]), d.args)

\* C11 as stated: the dispatched url is the base url less at most one
\* trailing slash, then "/", then the substituted template less at most one
\* leading slash.
C11_UrlIsBaseSlashPath ==
    dispatched # Nothing =>
        LET d == dispatched[1]
            base == klass.baseUrl
            b == IF EndsWithSlash(base) THEN DropLast(base) ELSE base
            p == IF BeginsWithSlash(d.resUrl) THEN DropFirst(d.resUrl) ELSE d.resUrl
        IN  d.url = b \o <<"/">> \o p

\* C11 (amended): with a non-empty base url the dispatched url is the base
\* url less at most one trailing slash, then "/", then the substituted
\* template less at most one leading slash; with the empty base url (the
\* default) it is the substituted template less at most one leading slash,
\* with nothing in front.  GET "/items/:id" with Path("id") at 0 and
\* Query("verbose") at 1, called with (7, true) under "http://x/",
\* dispatches GET, "http://x/items/7" and verbose = "true".
C11_UrlAssembly ==
    dispatched # Nothing =>
        LET d == dispatched[1]
            base == klass.baseUrl
            b == IF EndsWithSlash(base) THEN DropLast(base) ELSE base
            p == IF BeginsWithSlash(d.resUrl) THEN DropFirst(d.resUrl) ELSE d.resUrl
        IN  /\ d.url = IF Len(base) = 0 THEN p ELSE b \o <<"/">> \o p
            /\ ( /\ base = HostX \o <<"/">>
                 /\ descriptor.url = <<"/">> \o ItemsTemplate
                 /\ target["Path"] = <<[key |-> KeyId, parameterIndex |-> 0]>>
                 /\ target["Query"] = <<[key |-> KeyVerbose, parameterIndex |-> 1]>>
                 /\ d.args = <<Num(7), Bool(TRUE)>> )
                => /\ d.method = "GET"
                   /\ d.url = HostX \o <<"/", "i", "t", "e", "m", "s", "/", "7">>
                   /\ d.params = <<[key |-> KeyVerbose, value |-> <<"t", "r", "u", "e">>]>>

\* the end-to-end call of the claim was made
C11_Witness ==
    /\ dispatched # Nothing
    /\ klass.baseUrl = HostX \o <<"/">>
    /\ descriptor.url = <<"/">> \o ItemsTemplate
    /\ target["Path"] = <<[key |-> KeyId, parameterIndex |-> 0]>>
    /\ target["Query"] = <<[key |-> KeyVerbose, parameterIndex |-> 1]>>
    /\ dispatched[1].args = <<Num(7), Bool(TRUE)>>
    /\ dispatched[1].url = HostX \o <<"/", "i", "t", "e", "m", "s", "/", "7">>

\* C12: a Path or Header declaration without a key throws at once and
\* records nothing, so no Path or Header binding is ever without a key and
\* only Path and Header declarations throw; a Query declaration without a
\* key records its binding and does not throw.
C12_KeyRequiredAtDeclaration ==
    /\ [](/\ \A name \in {"Path", "Header"} :
                \A m \in 1..Len(target[name]) : target[name][m].key # <<>>
          /\ thrown # <<>> => thrown[1] \in {"Path", "Header"})
    /\ [][ /\ \A i \in ArgIndexes :
                 Path(<<>>, i) => (thrown' = <<"Path", "Key is required!">>
                                   /\ target' = target)
           /\ \A i \in ArgIndexes :
                 Header(<<>>, i) => (thrown' = <<"Header", "Key is required!">>
                                     /\ target' = target)
           /\ \A i \in ArgIndexes :
                 Query(<<>>, i) =>
                    /\ thrown' = thrown
                    /\ target'["Query"] = Append(target["Query"],
                            [key |-> <<>>, parameterIndex |-> i])
           /\ thrown' # thrown => target' = target ]_vars

\* a Path declaration without a key threw and left no Path binding, while
\* a Query binding without a key is recorded
C12_Witness ==
    /\ thrown = <<"Path", "Key is required!">>
    /\ target["Path"] = <<>>
    /\ \E m \in 1..Len(target["Query"]) : target["Query"][m].key = <<>>

\* the last entry of the list after a step is of the given request and
\* response kinds, and the entries before it are the list as it was
Appended(requestKind, responseKind) ==
    /\ Len(getInterceptors') = Len(getInterceptors) + 1
    /\ SubSeq(getInterceptors', 1, Len(getInterceptors)) = getInterceptors
    /\ getInterceptors'[Len(getInterceptors')].request.kind = requestKind
    /\ getInterceptors'[Len(getInterceptors')].response.kind = responseKind

\* C13: every registration appends exactly one entry at the end of
\* getInterceptors(), a handleRequest or handleResponse call (a step that
\* writes `last`) leaves the list as it is, and no step changes the list in
\* any other way.
C13_InterceptorsInInsertionOrder ==
    [][ /\ \A i \in ChainInterceptors :
                addInterceptor(i) =>
                    getInterceptors' = Append(getInterceptors, i)
        /\ addRequestInterceptor("appendB") => Appended("requestInterceptor", "none")
        /\ addResponseInterceptor("appendB") => Appended("none", "responseInterceptor")
        /\ addResponseErrorInterceptor("appendA")
                => Appended("none", "responseErrorInterceptor")
        /\ baseUrl(HostA \o <<"/">>, <<>>) => Appended("baseUrl", "none")
        /\ headers(<<Pair(Accept, ValJ)>>) => Appended("headers", "none")
        /\ last' # last => getInterceptors' = getInterceptors
        /\ \/ getInterceptors' = getInterceptors
           \/ /\ Len(getInterceptors') = Len(getInterceptors) + 1
              /\ SubSeq(getInterceptors', 1, Len(getInterceptors)) = getInterceptors
      ]_vars

\* handleResponse ran two response functions, last registered first, over
\* the full list, which still has a request-only entry in first place
C13_Witness ==
    /\ last.op = "handleResponse"
    /\ last.n = Len(getInterceptors)
    /\ Len(last.log) >= 2
    /\ last.log[1].idx > last.log[2].idx
    /\ getInterceptors[1].request.kind = "baseUrl"
    /\ getInterceptors[last.n].response.kind = "responseErrorInterceptor"

====
